---------------------------- MODULE Spec2Model ----------------------------
(***************************************************************************)
(* s3stats.py: statistics of S3 buckets.  Main filters the bucket list,    *)
(* ParallelStats maps Stats over the buckets on a ThreadPool, and the      *)
(* results are printed as JSON or by PrintResults as a table.              *)
(*                                                                         *)
(* Strings that the program inspects character by character (key names,    *)
(* filter patterns) or compares lexicographically (timestamps) are         *)
(* sequences of one-character strings; the other strings are TLA+ strings. *)
(***************************************************************************)
EXTENDS Integers, Sequences, FiniteSets, TLC

\* ------------------------------------------------------------------ bounds
MaxBuckets == 2      \* buckets handed to ParallelStats
MaxThreads == 2      \* --threads
MaxObjects == 3      \* keys of the bucket of a single-bucket run

\* ------------------------------------------------------- strings and dates
EmptyStr == <<>>

RECURSIVE StrGT(_, _)
\* a > b on Python strings: lexicographic, a proper prefix is the smaller
StrGT(a, b) ==
    IF a = <<>> THEN FALSE
    ELSE IF b = <<>> THEN TRUE
    ELSE IF Head(a) # Head(b) THEN Head(a) > Head(b)
    ELSE StrGT(Tail(a), Tail(b))

\* last_modified values, ISO-8601 so that text order is time order
T1 == <<1, 0>>
T2 == <<1, 1>>
T3 == <<2, 0>>

\* ------------------------------------------------------------- the matcher
StarCh == "*"
AnyCh == "?"
DotCh == "."

RECURSIVE fnmatch(_, _)
\* fnmatch(name, pat): the whole name against a glob of literals, * and ?
\* (no pattern of this model holds a bracket)
fnmatch(name, pat) ==
    IF pat = <<>> THEN name = <<>>
    ELSE IF Head(pat) = StarCh
         THEN \/ fnmatch(name, Tail(pat))
              \/ name # <<>> /\ fnmatch(Tail(name), pat)
    ELSE /\ name # <<>>
         /\ Head(pat) = AnyCh \/ Head(pat) = Head(name)
         /\ fnmatch(Tail(name), Tail(pat))

\* re.compile succeeds: a * needs something to repeat, and only once
ReValid(pat) ==
    \A i \in 1..Len(pat) :
        pat[i] = StarCh => (i > 1 /\ pat[i - 1] # StarCh)

RECURSIVE re_match(_, _)
\* re.match(pat, name) for a valid pattern of literals, . and postfix *:
\* a match that starts at position 0 and may end anywhere
re_match(pat, name) ==
    IF pat = <<>> THEN TRUE
    ELSE IF Len(pat) >= 2 /\ pat[2] = StarCh
         THEN \/ re_match(Tail(Tail(pat)), name)
              \/ /\ name # <<>>
                 /\ Head(pat) = DotCh \/ Head(pat) = Head(name)
                 /\ re_match(pat, Tail(name))
    ELSE /\ name # <<>>
         /\ Head(pat) = DotCh \/ Head(pat) = Head(name)
         /\ re_match(Tail(pat), Tail(name))

\* ApplyFilters raises re.error: the pattern is compiled by re.match, per call
FilterRaises(pattern, regex) == regex /\ ~ReValid(pattern)

\* ApplyFilters(pattern, [item], regex) is not empty
ApplyFilters(pattern, item, regex) ==
    IF regex THEN re_match(pattern, item.name) ELSE fnmatch(item.name, pattern)


\* ------------------------------------------------------------- the S3 side
\* boto keys as Lister(bucket)(prefix) yields them
KeyA == [name |-> <<"a", ".", "l", "o", "g">>, size |-> 100,
         storage_class |-> "STANDARD", encrypted |-> "None", last_modified |-> T1]
KeyB == [name |-> <<"b", ".", "l", "o", "g">>, size |-> 200,
         storage_class |-> "GLACIER", encrypted |-> "AES256", last_modified |-> T3]
KeyC == [name |-> <<"c", ".", "t", "x", "t">>, size |-> 50,
         storage_class |-> "STANDARD", encrypted |-> "None", last_modified |-> T2]
KeyD == [name |-> <<"d", ".", "l", "o", "g">>, size |-> 0,
         storage_class |-> "STANDARD", encrypted |-> "AES256", last_modified |-> T2]
Keys == {KeyA, KeyB, KeyC, KeyD}

\* bucket.get_location(): "" is the default region
Locations == {"", "EU"}

\* --filter with --filter-re: <<pattern, regex>>
PatAll == <<"*">>
PatLog == <<"*", ".", "l", "o", "g">>
PatA == <<"a">>
PatAnyG == <<".", "*", "g">>
Filters == {<<PatAll, FALSE>>, <<PatLog, FALSE>>, <<PatA, TRUE>>,
            <<PatAnyG, TRUE>>, <<PatLog, TRUE>>}

SeqsUpTo(S, n) == UNION {[1..k -> S] : k \in 0..n}

BucketName(i) == <<"b", i>>

\* the buckets of a run of many buckets: what S3 holds for each
DispatchBuckets ==
    {[location |-> "", contents |-> <<>>],
     [location |-> "EU", contents |-> <<KeyA, KeyC>>]}

\* and the filter of such a run
DispatchFilters == {<<PatLog, FALSE>>}

\* ------------------------------------------------------------------- state
VARIABLES
    args,       \* the parsed command line: filter, filterRe, bucketDetails, threads
    buckets,    \* the boto buckets Main hands to ParallelStats, in order
    taskqueue,  \* the pool's queue of chunks not yet taken by a worker
    thread,     \* the pool's worker threads: where each is in Stats, its locals
    mapres,     \* the MapResult that pool.map waits on
    mainpc,     \* where the main thread is
    results,    \* ParallelStats' return value
    output,     \* what Main printed, or the exception that ended it
    owner       \* per bucket, the workers that ran a statement of its Stats

vars == <<args, buckets, taskqueue, thread, mapres, mainpc, results, output, owner>>

Workers == 1..args.threads
NoResult == [none |-> TRUE]
NoKey == [none |-> TRUE]
NoTask == [i |-> 0, items |-> <<>>]
IdleThread == [pc |-> "idle", task |-> NoTask, item |-> 0, result |-> NoResult,
               key |-> NoKey, pos |-> 0, out |-> <<>>, exc |-> ""]

\* the bucket a worker's Stats call is about
Cur(w) == thread[w].task.items[thread[w].item]
Bucket(w) == buckets[Cur(w)]

\* daemon threads run only while the process does
Running == mainpc \notin {"aborted", "done"}

Touch(w) == [owner EXCEPT ![Cur(w)] = @ \cup {w}]

\* ------------------------------------------------------------------- Stats
\* result = {...}
NewResult(bucket) ==
    [name |-> bucket.name, creationDate |-> bucket.creation_date,
     numberOfFiles |-> 0, sizeOfFiles |-> 0, modifiedDate |-> EmptyStr,
     storageClasses |-> <<>>, encrypted |-> <<>>]

\* d[k]["numberOfFiles"] += 1; d[k]["sizeOfFiles"] += size, on a defaultdict
Bump(d, k, size) ==
    IF k \in DOMAIN d
    THEN [d EXCEPT ![k] = [numberOfFiles |-> @.numberOfFiles + 1,
                           sizeOfFiles |-> @.sizeOfFiles + size]]
    ELSE d @@ (k :> [numberOfFiles |-> 1, sizeOfFiles |-> size])

\* a variant that keeps the date of the last key counted
LastDate(modifiedDate, last_modified) == last_modified

\* if key.last_modified > result["modifiedDate"]: ...
NewerDate(modifiedDate, last_modified) ==
    IF StrGT(last_modified, modifiedDate) THEN last_modified ELSE modifiedDate

\* a variant that leaves the encryption breakdown out
AccumulateNoEncrypted(result, key) ==
    [result EXCEPT
        !.numberOfFiles = @ + 1,
        !.sizeOfFiles = @ + key.size,
        !.storageClasses = Bump(@, key.storage_class, key.size),
        !.modifiedDate = NewerDate(@, key.last_modified)]

\* the body of the if of the loop over the keys
Accumulate(result, key) ==
    [result EXCEPT
        !.numberOfFiles = @ + 1,
        !.sizeOfFiles = @ + key.size,
        !.storageClasses = Bump(@, key.storage_class, key.size),
        !.encrypted = Bump(@, key.encrypted, key.size),
        !.modifiedDate = NewerDate(@, key.last_modified)]

\* a variant that files a rejected key under its storage class, uncounted
FoldFiled(result, key, pattern, regex) ==
    IF ApplyFilters(pattern, key, regex) THEN Accumulate(result, key)
    ELSE [result EXCEPT !.storageClasses =
             IF key.storage_class \in DOMAIN @ THEN @
             ELSE @ @@ (key.storage_class :> [numberOfFiles |-> 0, sizeOfFiles |-> 0])]

\* one pass of the loop over the keys
Fold(result, key, pattern, regex) ==
    IF ApplyFilters(pattern, key, regex) THEN Accumulate(result, key) ELSE result

\* an exception leaves Stats: mapstar is left too, the chunk has failed
Raise(w, what) ==
    thread' = [thread EXCEPT ![w] = [@ EXCEPT !.pc = "put", !.exc = what,
                  !.result = NoResult, !.key = NoKey, !.out = <<>>]]

\* a worker takes the next chunk off the queue
WorkerGet(w) ==
    /\ Running
    /\ thread[w].pc = "idle"
    /\ taskqueue # <<>>
    /\ thread' = [thread EXCEPT ![w] = [IdleThread EXCEPT !.pc = "call",
                      !.task = Head(taskqueue), !.item = 1]]
    /\ taskqueue' = Tail(taskqueue)
    /\ UNCHANGED <<args, buckets, mapres, mainpc, results, output, owner>>

\* Stats is entered: the empty aggregate
StatsEnter(w) ==
    /\ Running
    /\ thread[w].pc = "call"
    /\ thread' = [thread EXCEPT ![w] = [@ EXCEPT
                      !.pc = IF args.bucketDetails THEN "lifecycle" ELSE "list",
                      !.result = NewResult(Bucket(w)), !.pos = 0, !.key = NoKey]]
    /\ owner' = Touch(w)
    /\ UNCHANGED <<args, buckets, taskqueue, mapres, mainpc, results, output>>

\* a variant without the try: a failed lifecycle fetch leaves Stats
GetLifecycleStrict(w) ==
    /\ Running
    /\ thread[w].pc = "lifecycle"
    /\ \/ thread' = [thread EXCEPT ![w] = [@ EXCEPT !.pc = "location",
                         !.result = @ @@ ("lifecycle" :> "rules")]]
       \/ Raise(w, "lifecycle")
    /\ owner' = Touch(w)
    /\ UNCHANGED <<args, buckets, taskqueue, mapres, mainpc, results, output>>

\* try: result["lifecycle"] = ... except: pass
GetLifecycle(w) ==
    /\ Running
    /\ thread[w].pc = "lifecycle"
    /\ \/ thread' = [thread EXCEPT ![w] = [@ EXCEPT !.pc = "location",
                         !.result = @ @@ ("lifecycle" :> "rules")]]
       \/ thread' = [thread EXCEPT ![w] = [@ EXCEPT !.pc = "location"]]
    /\ owner' = Touch(w)
    /\ UNCHANGED <<args, buckets, taskqueue, mapres, mainpc, results, output>>

\* "" is stored as "DEFAULT"
Normalize(location) == IF location = "" THEN "DEFAULT" ELSE location

\* result["location"] = bucket.get_location(), normalized
GetLocation(w) ==
    /\ Running
    /\ thread[w].pc = "location"
    /\ \/ thread' = [thread EXCEPT ![w] = [@ EXCEPT !.pc = "logging",
                         !.result = @ @@ ("location" :> Normalize(Bucket(w).location))]]
       \/ Raise(w, "location")
    /\ owner' = Touch(w)
    /\ UNCHANGED <<args, buckets, taskqueue, mapres, mainpc, results, output>>

\* result["logging"] = LoggingStatusToDict(bucket.get_logging_status())
GetLogging(w) ==
    /\ Running
    /\ thread[w].pc = "logging"
    /\ \/ thread' = [thread EXCEPT ![w] = [@ EXCEPT !.pc = "tags",
                         !.result = @ @@ ("logging" :> "status")]]
       \/ Raise(w, "logging")
    /\ owner' = Touch(w)
    /\ UNCHANGED <<args, buckets, taskqueue, mapres, mainpc, results, output>>

\* result["tags"] = dict(... bucket.get_tags()[0])
GetTags(w) ==
    /\ Running
    /\ thread[w].pc = "tags"
    /\ \/ thread' = [thread EXCEPT ![w] = [@ EXCEPT !.pc = "version",
                         !.result = @ @@ ("tags" :> "tagset")]]
       \/ Raise(w, "tags")
    /\ owner' = Touch(w)
    /\ UNCHANGED <<args, buckets, taskqueue, mapres, mainpc, results, output>>

\* result["version"] = bucket.get_versioning_status()
GetVersion(w) ==
    /\ Running
    /\ thread[w].pc = "version"
    /\ \/ thread' = [thread EXCEPT ![w] = [@ EXCEPT !.pc = "list",
                         !.result = @ @@ ("version" :> "status")]]
       \/ Raise(w, "version")
    /\ owner' = Touch(w)
    /\ UNCHANGED <<args, buckets, taskqueue, mapres, mainpc, results, output>>

\* the lister yields the next key: it is filtered and, on a match, counted
ListNext(w) ==
    /\ Running
    /\ thread[w].pc = "list"
    /\ thread[w].pos < Len(Bucket(w).contents)
    /\ LET key == Bucket(w).contents[thread[w].pos + 1]
       IN  IF FilterRaises(args.filter, args.filterRe)
           THEN Raise(w, "re.error")
           ELSE thread' = [thread EXCEPT ![w] = [@ EXCEPT
                    !.key = key, !.pos = @ + 1,
                    !.result = Fold(@, key, args.filter, args.filterRe)]]
    /\ owner' = Touch(w)
    /\ UNCHANGED <<args, buckets, taskqueue, mapres, mainpc, results, output>>

\* the listing fails (network, permission, no such bucket)
ListError(w) ==
    /\ Running
    /\ thread[w].pc = "list"
    /\ Raise(w, "list")
    /\ owner' = Touch(w)
    /\ UNCHANGED <<args, buckets, taskqueue, mapres, mainpc, results, output>>

\* the lister is exhausted: Stats returns result; mapstar goes on with the
\* chunk's next bucket or the chunk is done
StatsReturn(w) ==
    /\ Running
    /\ thread[w].pc = "list"
    /\ thread[w].pos = Len(Bucket(w).contents)
    /\ thread' = [thread EXCEPT ![w] = [@ EXCEPT
           !.out = Append(@, thread[w].result),
           !.result = NoResult, !.key = NoKey, !.pos = 0,
           !.item = IF @ < Len(thread[w].task.items) THEN @ + 1 ELSE @,
           !.pc = IF thread[w].item < Len(thread[w].task.items) THEN "call" ELSE "put"]]
    /\ UNCHANGED <<args, buckets, taskqueue, mapres, mainpc, results, output, owner>>


\* ----------------------------------------------------------- ParallelStats
\* pool.map's chunksize: divmod(len(iterable), len(pool) * 4), rounded up
ChunkSize(n, threads) ==
    IF n = 0 THEN 0
    ELSE (n \div (threads * 4)) + (IF n % (threads * 4) # 0 THEN 1 ELSE 0)

\* the number of chunks of a MapResult: length // chunksize + bool(length % chunksize)
NumChunks(n, cs) == IF cs = 0 THEN 0 ELSE (n \div cs) + (IF n % cs # 0 THEN 1 ELSE 0)

\* the chunks of the bucket list, as indexes into it, in submission order
Chunks(n, cs) ==
    [i \in 1..NumChunks(n, cs) |->
        [i |-> i - 1,
         items |-> [k \in 1..(IF i * cs <= n THEN cs ELSE n - (i - 1) * cs) |->
                       (i - 1) * cs + k]]]

\* a variant that files the chunks in the order of their arrival
SetSliceArrival(value, i, cs, out) ==
    LET filled == Cardinality({j \in 1..Len(value) : "none" \notin DOMAIN value[j]})
    IN  [j \in 1..Len(value) |->
            IF j > filled /\ j <= filled + Len(out) THEN out[j - filled] ELSE value[j]]

\* MapResult._set(i, (True, out)): the chunk's slice of the value
SetSlice(value, i, cs, out) ==
    [j \in 1..Len(value) |->
        IF j > i * cs /\ j <= i * cs + Len(out) THEN out[j - i * cs] ELSE value[j]]

\* MapResult._set(i, (success, out)); a result that comes after the job has
\* left the cache is dropped
MapSet(mr, i, cs, success, out, exc) ==
    IF mr.ready THEN mr
    ELSE IF success
         THEN [mr EXCEPT !.value = SetSlice(@, i, cs, out),
                         !.number_left = @ - 1,
                         !.ready = (mr.number_left = 1)]
    ELSE [mr EXCEPT !.success = FALSE, !.value = <<>>, !.exc = exc, !.ready = TRUE]

\* pool = ThreadPool(threads); pool.map(...) queues the chunks and waits
MapSubmit ==
    /\ mainpc = "start"
    /\ LET n == Len(buckets)
           cs == ChunkSize(n, args.threads)
       IN  /\ taskqueue' = Chunks(n, cs)
           /\ mapres' = [ready |-> (NumChunks(n, cs) = 0), success |-> TRUE,
                         value |-> [j \in 1..n |-> NoResult],
                         number_left |-> NumChunks(n, cs), chunksize |-> cs, exc |-> ""]
    /\ mainpc' = "map"
    /\ UNCHANGED <<args, buckets, thread, results, output, owner>>

\* the worker hands the chunk's outcome over and is idle again
WorkerPut(w) ==
    /\ Running
    /\ thread[w].pc = "put"
    /\ mapres' = MapSet(mapres, thread[w].task.i, mapres.chunksize,
                        thread[w].exc = "", thread[w].out, thread[w].exc)
    /\ thread' = [thread EXCEPT ![w] = IdleThread]
    /\ UNCHANGED <<args, buckets, taskqueue, mainpc, results, output, owner>>

\* pool.map returns the list of results
MapReturn ==
    /\ mainpc = "map"
    /\ mapres.ready /\ mapres.success
    /\ results' = mapres.value
    /\ mainpc' = "close"
    /\ UNCHANGED <<args, buckets, taskqueue, thread, mapres, output, owner>>

\* pool.map raises the exception of the failed chunk: nothing in
\* ParallelStats or Main catches it, the process ends with a traceback
MapRaise ==
    /\ mainpc = "map"
    /\ mapres.ready /\ ~mapres.success
    /\ output' = [format |-> "", kind |-> mapres.exc, rows |-> <<>>]
    /\ mainpc' = "aborted"
    /\ UNCHANGED <<args, buckets, taskqueue, thread, mapres, results, owner>>

\* pool.close()
PoolClose ==
    /\ mainpc = "close"
    /\ mainpc' = "join"
    /\ UNCHANGED <<args, buckets, taskqueue, thread, mapres, results, output, owner>>

\* pool.join() returns once the workers have ended; return results
PoolJoin ==
    /\ mainpc = "join"
    /\ \A w \in Workers : thread[w].pc = "idle"
    /\ mainpc' = "print"
    /\ UNCHANGED <<args, buckets, taskqueue, thread, mapres, results, output, owner>>

\* ------------------------------------------------------------ PrintResults
RECURSIVE SumOf(_, _)
\* sum([ r[field] for r in results ])
SumOf(rs, field) == IF rs = <<>> THEN 0 ELSE Head(rs)[field] + SumOf(Tail(rs), field)

RECURSIVE SetToSeq(_)
\* the order in which a set or the keys of a dict are iterated
SetToSeq(S) == IF S = {} THEN <<>> ELSE LET x == CHOOSE x \in S : TRUE
                                        IN  <<x>> \o SetToSeq(S \ {x})

\* hurry.filesize.size(bytes), traditional system
HumanSize(bytes) ==
    IF bytes >= 1024 * 1024 THEN <<bytes \div (1024 * 1024), "M">>
    ELSE IF bytes >= 1024 THEN <<bytes \div 1024, "K">>
    ELSE <<bytes, "B">>

SizeCell(bytes, human) == IF human THEN HumanSize(bytes) ELSE <<bytes>>

\* "{:,.2f}%".format(float(part) / float(whole) * 100), in hundredths
Percent(part, whole) == (part * 10000 * 2 + whole) \div (2 * whole)

Cells(c) == [err |-> "", cells |-> c]
Err(e) == [err |-> e, cells |-> <<>>]

\* the cells of a t.add_row, evaluated left to right: the region first, the
\* percentage last
Row(r, label, sizeOfFiles, human) ==
    IF "location" \notin DOMAIN r THEN Err("KeyError")
    ELSE IF sizeOfFiles = 0 THEN Err("ZeroDivisionError")
    ELSE Cells(<<r.location, r.name>> \o label \o
               <<r.numberOfFiles, SizeCell(r.sizeOfFiles, human),
                 Percent(r.sizeOfFiles, sizeOfFiles)>>)

RECURSIVE Select(_, _)
\* [ r for r in results if r["location"] == region ]
Select(rs, region) ==
    IF rs = <<>> THEN <<>>
    ELSE (IF Head(rs).location = region THEN <<Head(rs)>> ELSE <<>>)
         \o Select(Tail(rs), region)

RegionRow(rs, region, sizeOfFiles, human) ==
    IF sizeOfFiles = 0 THEN Err("ZeroDivisionError")
    ELSE Cells(<<region, SumOf(Select(rs, region), "numberOfFiles"),
                 SizeCell(SumOf(Select(rs, region), "sizeOfFiles"), human),
                 Percent(SumOf(Select(rs, region), "sizeOfFiles"), sizeOfFiles)>>)

RECURSIVE Flatten(_)
Flatten(ss) == IF ss = <<>> THEN <<>> ELSE Head(ss) \o Flatten(Tail(ss))

\* one row per key of result[field], for each result
SplitRows(rs, field, sizeOfFiles, human) ==
    Flatten([i \in 1..Len(rs) |->
        LET ks == SetToSeq(DOMAIN rs[i][field])
        IN  [j \in 1..Len(ks) |-> Row(rs[i], <<ks[j]>>, sizeOfFiles, human)]])

\* the rows of the table of a view, each either its cells or the exception
\* that its evaluation raises
ViewRows(view, rs, sizeOfFiles, human) ==
    CASE view = "byRegion" ->
           IF \E i \in 1..Len(rs) : "location" \notin DOMAIN rs[i]
           THEN <<Err("KeyError")>>
           ELSE LET regions == SetToSeq({rs[i].location : i \in 1..Len(rs)})
                IN  [j \in 1..Len(regions) |->
                        RegionRow(rs, regions[j], sizeOfFiles, human)]
      [] view = "byStorageType" -> SplitRows(rs, "storageClasses", sizeOfFiles, human)
      [] view = "byEncryption" -> SplitRows(rs, "encrypted", sizeOfFiles, human)
      [] OTHER -> [i \in 1..Len(rs) |-> Row(rs[i], <<>>, sizeOfFiles, human)]

\* PrintResults(args, results): the table printed, or the first exception
PrintResults(view, human, rs) ==
    LET numberOfFiles == SumOf(rs, "numberOfFiles")
        sizeOfFiles == SumOf(rs, "sizeOfFiles")
        rows == ViewRows(view, rs, sizeOfFiles, human)
        bad == {i \in 1..Len(rows) : rows[i].err # ""}
    IN  IF bad # {}
        THEN [kind |-> rows[CHOOSE i \in bad : \A j \in bad : i <= j].err, rows |-> <<>>]
        ELSE [kind |-> "table",
              rows |-> [i \in 1..Len(rows) |-> rows[i].cells] \o
                       <<<<"Total", numberOfFiles, SizeCell(sizeOfFiles, human), 10000>>>>]

Views == {"default", "byRegion", "byStorageType", "byEncryption"}

\* print json.dumps(results, ...)
PrintJson ==
    /\ mainpc = "print"
    /\ output' = [format |-> "json", kind |-> "json", rows |-> results]
    /\ mainpc' = "done"
    /\ UNCHANGED <<args, buckets, taskqueue, thread, mapres, results, owner>>

\* PrintResults(args, results) under --by-region, --by-storage-type,
\* --by-encryption or none of them, with or without --human-readable
PrintTable ==
    /\ mainpc = "print"
    /\ \E view \in Views, human \in BOOLEAN :
          output' = [format |-> view] @@ PrintResults(view, human, results)
    /\ mainpc' = "done"
    /\ UNCHANGED <<args, buckets, taskqueue, thread, mapres, results, owner>>

\* ------------------------------------------------------- the specifications
Next ==
    \/ MapSubmit \/ MapReturn \/ MapRaise \/ PoolClose \/ PoolJoin
    \/ PrintJson \/ PrintTable
    \/ \E w \in Workers : WorkerGet(w)
    \/ \E w \in Workers : StatsEnter(w)
    \/ \E w \in Workers : GetLifecycle(w)
    \/ \E w \in Workers : GetLocation(w)
    \/ \E w \in Workers : GetLogging(w)
    \/ \E w \in Workers : GetTags(w)
    \/ \E w \in Workers : GetVersion(w)
    \/ \E w \in Workers : ListNext(w)
    \/ \E w \in Workers : ListError(w)
    \/ \E w \in Workers : StatsReturn(w)
    \/ \E w \in Workers : WorkerPut(w)

\* what does not depend on the command line and the buckets
InitRest ==
    /\ taskqueue = <<>>
    /\ thread = [w \in Workers |-> IdleThread]
    /\ mapres = [ready |-> FALSE, success |-> TRUE, value |-> <<>>,
                 number_left |-> 0, chunksize |-> 0, exc |-> ""]
    /\ mainpc = "start"
    /\ results = <<>>
    /\ output = [format |-> "", kind |-> "", rows |-> <<>>]
    /\ owner = [i \in 1..Len(buckets) |-> {}]

BotoBucket(i, b) ==
    [name |-> BucketName(i), creation_date |-> T1,
     location |-> b.location, contents |-> b.contents]

\* a run over up to MaxBuckets buckets with up to MaxThreads threads
Init ==
    /\ \E f \in DispatchFilters, d \in BOOLEAN, t \in 1..MaxThreads :
          args = [filter |-> f[1], filterRe |-> f[2], bucketDetails |-> d, threads |-> t]
    /\ \E n \in 0..MaxBuckets : \E bs \in [1..n -> DispatchBuckets] :
          buckets = [i \in 1..n |-> BotoBucket(i, bs[i])]
    /\ InitRest

Spec == Init /\ [][Next]_vars

\* a run over one bucket, of any contents of up to MaxObjects keys
InitStats ==
    /\ \E f \in Filters, d \in BOOLEAN :
          args = [filter |-> f[1], filterRe |-> f[2], bucketDetails |-> d, threads |-> 1]
    /\ \E l \in Locations, c \in SeqsUpTo(Keys, MaxObjects) :
          buckets = <<BotoBucket(1, [location |-> l, contents |-> c])>>
    /\ InitRest

SpecStats == InitStats /\ [][Next]_vars


\* ------------------------------------------------------------ the aggregates
IsAggregate(r) == "none" \notin DOMAIN r

StatsPcs == {"lifecycle", "location", "logging", "tags", "version", "list"}

\* <<bucket index, aggregate>> of the Stats calls that are under way
InProgress ==
    {<<Cur(w), thread[w].result>> : w \in {v \in Workers : thread[v].pc \in StatsPcs}}

\* <<bucket index, aggregate>> of the Stats calls that have returned
Returned ==
    UNION {{<<thread[w].task.items[k], thread[w].out[k]>> : k \in 1..Len(thread[w].out)} :
              w \in Workers}
    \cup {<<i, mapres.value[i]>> : i \in {j \in 1..Len(mapres.value) :
                                              IsAggregate(mapres.value[j])}}
    \cup {<<i, results[i]>> : i \in 1..Len(results)}

RECURSIVE SumKeys(_, _, _)
\* the sum of d[k][field] over the keys in ks
SumKeys(d, ks, field) ==
    IF ks = {} THEN 0
    ELSE LET k == CHOOSE k \in ks : TRUE
         IN  d[k][field] + SumKeys(d, ks \ {k}, field)

Additive(r, breakdown) ==
    /\ r.numberOfFiles = SumKeys(r[breakdown], DOMAIN r[breakdown], "numberOfFiles")
    /\ r.sizeOfFiles = SumKeys(r[breakdown], DOMAIN r[breakdown], "sizeOfFiles")

\* C3: in every aggregate, under way (between two keys) or returned, the
\* number and the size of the files are the sums of the numbers and of the
\* sizes over the storage classes, and over the encryption states
C3_Additivity ==
    \A p \in InProgress \cup Returned :
        Additive(p[2], "storageClasses") /\ Additive(p[2], "encrypted")

\* a returned aggregate of three files in two storage classes
C3_Witness ==
    /\ mainpc = "done"
    /\ \E i \in 1..Len(results) :
          /\ results[i].numberOfFiles = 3
          /\ Cardinality(DOMAIN results[i].storageClasses) = 2
          /\ Cardinality(DOMAIN results[i].encrypted) = 2

\* C4: a key that the filter rejects leaves the aggregate as it was: the
\* totals, the date, and the keys and entries of both breakdowns
C4_RejectedKeyChangesNothing ==
    [][\A w \in Workers :
          (/\ thread[w].pc = "list"
           /\ thread'[w].pc = "list"
           /\ thread'[w].pos = thread[w].pos + 1
           /\ ~ApplyFilters(args.filter, thread'[w].key, args.filterRe))
          => thread'[w].result = thread[w].result]_vars

\* a rejected key has just been passed over, after a key that was counted
C4_Witness ==
    \E w \in Workers :
        /\ thread[w].pc = "list"
        /\ thread[w].key # NoKey
        /\ ~ApplyFilters(args.filter, thread[w].key, args.filterRe)
        /\ thread[w].result.numberOfFiles >= 1

\* the greatest of a set of dates, "" for none
MaxDate(S) == IF S = {} THEN EmptyStr
              ELSE CHOOSE t \in S : \A u \in S : ~StrGT(u, t)

\* the dates of the first n keys of a bucket that pass the filter
MatchedDates(b, n) ==
    {b.contents[k].last_modified :
        k \in {j \in 1..n : ApplyFilters(args.filter, b.contents[j], args.filterRe)}}

C5_DateIsMax ==
    /\ \A w \in Workers : thread[w].pc \in StatsPcs =>
          thread[w].result.modifiedDate = MaxDate(MatchedDates(Bucket(w), thread[w].pos))
    /\ \A p \in Returned :
          p[2].modifiedDate =
              MaxDate(MatchedDates(buckets[p[1]], Len(buckets[p[1]].contents)))

C5_DateNeverDecreases ==
    \A w \in Workers :
        (thread[w].pc = "list" /\ thread'[w].pc = "list")
        => ~StrGT(thread[w].result.modifiedDate, thread'[w].result.modifiedDate)

\* C5: while a bucket is collected modifiedDate never decreases; after each
\* key, and in the returned aggregate, it is the greatest last_modified of
\* the keys that passed the filter, "" when none did
C5_Monotonic == []C5_DateIsMax /\ [][C5_DateNeverDecreases]_vars

\* keys dated T1, T3, T2 in this order, all counted, give T3
C5_Witness ==
    /\ mainpc = "done"
    /\ buckets[1].contents = <<KeyA, KeyB, KeyD>>
    /\ results[1].numberOfFiles = 3
    /\ results[1].modifiedDate = T3

DetailKeys == {"location", "logging", "tags", "version"}

\* C9: with --bucket-details, no Stats call fails on the lifecycle; one that
\* fails on the location, the logging, the tags or the versioning has listed
\* no key and returns no aggregate; every aggregate that got past the
\* details has all four of them, with or without the lifecycle, and its
\* location is "DEFAULT" exactly when the bucket's is ""
C9_DetailAsymmetry ==
    /\ \A w \in Workers :
          /\ thread[w].exc # "lifecycle"
          /\ thread[w].exc \in DetailKeys =>
                /\ thread[w].pos = 0
                /\ thread[w].out = <<>>
                /\ ~IsAggregate(thread[w].result)
                /\ \A p \in Returned : p[1] # Cur(w)
          /\ (thread[w].pc = "list" /\ args.bucketDetails) =>
                DetailKeys \subseteq DOMAIN thread[w].result
    /\ args.bucketDetails =>
          \A p \in Returned :
              /\ DetailKeys \subseteq DOMAIN p[2]
              /\ (p[2].location = "DEFAULT") <=> (buckets[p[1]].location = "")
              /\ buckets[p[1]].location # "" => p[2].location = buckets[p[1]].location

\* the lifecycle fetch failed and the bucket was still collected in full
C9_Witness ==
    /\ mainpc = "done"
    /\ args.bucketDetails
    /\ "lifecycle" \notin DOMAIN results[1]
    /\ DetailKeys \subseteq DOMAIN results[1]
    /\ results[1].location = "DEFAULT"
    /\ results[1].numberOfFiles = 2

\* the number of keys of a bucket that pass the filter
Matching(b) ==
    Cardinality({k \in 1..Len(b.contents) :
                    ApplyFilters(args.filter, b.contents[k], args.filterRe)})

\* C10: once pool.map has returned, results holds one aggregate per bucket,
\* the i-th for the i-th bucket; at any time an aggregate has been written by
\* one worker at most
C10_SubmissionOrder ==
    /\ \A i \in 1..Len(buckets) : Cardinality(owner[i]) <= 1
    /\ mainpc \in {"close", "join", "print", "done"} =>
          /\ Len(results) = Len(buckets)
          /\ \A i \in 1..Len(buckets) :
                /\ IsAggregate(results[i])
                /\ results[i].name = buckets[i].name
                /\ results[i].numberOfFiles = Matching(buckets[i])
                /\ Cardinality(owner[i]) = 1

\* buckets of different contents, each collected by a worker of its own
C10_Witness ==
    /\ mainpc = "done"
    /\ Len(results) = MaxBuckets
    /\ args.threads = 2
    /\ owner[1] # owner[2]
    /\ results[1].numberOfFiles # results[2].numberOfFiles

\* C1: the failure of one bucket's Stats does not abort the run: it ends
\* with one entry per bucket
C1_Isolation ==
    /\ mainpc # "aborted"
    /\ mainpc = "done" => Len(results) = Len(buckets)

\* C2: the caller of pool.map has control again only when no Stats call is
\* still running or still queued
C2_Barrier ==
    mainpc \in {"close", "join", "print", "done", "aborted"} =>
        /\ taskqueue = <<>>
        /\ \A w \in Workers : thread[w].pc = "idle"

\* C6: a table over results whose sizes sum to 0 is printed, no division by
\* zero is raised
C6_ZeroTotal ==
    (/\ mainpc = "done"
     /\ results # <<>>
     /\ SumOf(results, "sizeOfFiles") = 0)
    => output.kind # "ZeroDivisionError"

\* C7: the default view prints one row per bucket and the Total row, with
\* or without --bucket-details
C7_DefaultView ==
    (mainpc = "done" /\ output.format = "default") =>
        /\ output.kind = "table"
        /\ Len(output.rows) = Len(results) + 1

\* C8: with an invalid regular expression as the filter, no worker fetches
\* metadata, lists keys or raises re.error from the matching of a key
C8_FailFast ==
    FilterRaises(args.filter, args.filterRe) =>
        \A w \in Workers :
            /\ thread[w].pc \notin {"location", "logging", "tags", "version"}
            /\ thread[w].exc # "re.error"

=============================================================================
